---------------------------- MODULE Spec2Model ----------------------------
(***************************************************************************)
(* A model of src/src/pipeline.py, the currency exchange rate pipeline.    *)
(*                                                                         *)
(* Strings are sequences of code points, so that Python's string order     *)
(* (sorted, tuple comparison) and the string conversions (f-strings,       *)
(* strftime, str.replace, date parsing) are computed and not assumed.      *)
(* The data directory is the function `files` from file names to CSV       *)
(* contents; a CSV content is a record [cols, rows].                       *)
(***************************************************************************)
EXTENDS Integers, Sequences, FiniteSets, Bags, TLC

VARIABLES
    files,                \* DATA_DIR: file name -> CSV content
    fresh,                \* names of the files modified less than 24 hours ago
    net,                  \* the ECB API: currency code -> what a GET answers
    pc,                   \* position of the running flow
    idx,                  \* index of the current iteration of the running loop
    attempt,              \* retries already used by the running download task
    fetchLog,             \* history: the outcome of every GET, per currency
    downloaded_files,     \* currency_exchange_rate_pipeline locals ...
    cleaned_files,
    all_currency_pairs,   \* collect_currency_pairs_flow accumulator
    pairs_file,
    all_dates,            \* collect_dates_flow accumulator
    dates_file,
    monthly_stats_files,
    expected_months,      \* identify_missing_data_flow locals ...
    currency_pairs,
    missing_data_files,
    aggregate_file,
    initial,              \* the data directory as the run found it
    sequential,           \* SpecPar: how the sequential run ended, once it has
    stage                 \* SpecPar: currency code -> stage of its concurrent unit

vars == <<files, fresh, net, pc, idx, attempt, fetchLog, downloaded_files,
          cleaned_files, all_currency_pairs, pairs_file, all_dates, dates_file,
          monthly_stats_files, expected_months, currency_pairs,
          missing_data_files, aggregate_file, initial, sequential, stage>>

\* What only the comparison of a concurrent run with the sequential one uses.
par == <<initial, sequential, stage>>

-----------------------------------------------------------------------------
(* Strings *)

\* The code points of the characters the program's strings are made of.
Chr == [A |-> 65, B |-> 66, C |-> 67, D |-> 68, E |-> 69, G |-> 71, K |-> 75,
        N |-> 78, O |-> 79, P |-> 80, R |-> 82, S |-> 83, U |-> 85,
        us |-> 95, dot |-> 46, dash |-> 45, zero |-> 48,
        a |-> 97, c |-> 99, d |-> 100, e |-> 101, g |-> 103, h |-> 104,
        i |-> 105, l |-> 108, m |-> 109, n |-> 110, o |-> 111, p |-> 112,
        r |-> 114, s |-> 115, t |-> 116, v |-> 118, y |-> 121]

\* Python's None; a falsy value, as the flows test it (`if cleaned_file:`).
None == <<>>

Min(a, b) == IF a <= b THEN a ELSE b

\* str.__lt__: lexicographic order on code points.
StrLess(s, t) ==
    \E k \in 1..(Min(Len(s), Len(t)) + 1) :
        /\ \A j \in 1..(k - 1) : s[j] = t[j]
        /\ \/ k > Len(s) /\ k <= Len(t)
           \/ k <= Len(s) /\ k <= Len(t) /\ s[k] < t[k]

\* tuple.__lt__ on (currency_pair, month) tuples.
TupleLess(x, y) ==
    \/ StrLess(x[1], y[1])
    \/ x[1] = y[1] /\ StrLess(x[2], y[2])

\* s.startswith(t, k): t occurs in s at position k.
OccursAt(s, t, k) ==
    /\ k + Len(t) - 1 <= Len(s)
    /\ \A j \in 1..Len(t) : s[k + j - 1] = t[j]

\* str.replace(old, new): every non-overlapping occurrence, left to right.
RECURSIVE ReplaceFrom(_, _, _, _)
ReplaceFrom(s, old, new, k) ==
    IF k > Len(s) THEN <<>>
    ELSE IF OccursAt(s, old, k)
         THEN new \o ReplaceFrom(s, old, new, k + Len(old))
         ELSE <<s[k]>> \o ReplaceFrom(s, old, new, k + 1)

Replace(s, old, new) == ReplaceFrom(s, old, new, 1)

\* str(int) for a natural number.
RECURSIVE Digits(_)
Digits(n) ==
    IF n < 10 THEN <<Chr.zero + n>>
    ELSE Digits(n \div 10) \o <<Chr.zero + (n % 10)>>

\* format(n, "02d")
Pad2(n) == IF n < 10 THEN <<Chr.zero>> \o Digits(n) ELSE Digits(n)

\* format(n, "04d"): strftime's %Y of a pandas Timestamp (years 1677..2262).
Pad4(n) ==
    IF n < 10 THEN <<Chr.zero, Chr.zero, Chr.zero>> \o Digits(n)
    ELSE IF n < 100 THEN <<Chr.zero, Chr.zero>> \o Digits(n)
    ELSE IF n < 1000 THEN <<Chr.zero>> \o Digits(n)
    ELSE Digits(n)

IsDigit(ch) == ch >= Chr.zero /\ ch <= Chr.zero + 9

\* int(s) for a string of digits.
RECURSIVE ParseInt(_)
ParseInt(s) ==
    IF s = <<>> THEN 0
    ELSE 10 * ParseInt(SubSeq(s, 1, Len(s) - 1)) + (s[Len(s)] - Chr.zero)

\* sorted(S) for a set of strings.
RECURSIVE SortedStrings(_)
SortedStrings(S) ==
    IF S = {} THEN <<>>
    ELSE LET least == CHOOSE x \in S : \A y \in S : x = y \/ StrLess(x, y)
         IN  <<least>> \o SortedStrings(S \ {least})

\* sorted(list) for a list of (currency_pair, month) tuples: a stable
\* insertion of each element after the elements not greater than it.
RECURSIVE InsertTuple(_, _)
InsertTuple(sorted, x) ==
    IF sorted = <<>> THEN <<x>>
    ELSE IF TupleLess(x, sorted[1]) THEN <<x>> \o sorted
    ELSE <<sorted[1]>> \o InsertTuple(Tail(sorted), x)

RECURSIVE SortedTuples(_)
SortedTuples(list) ==
    IF list = <<>> THEN <<>>
    ELSE InsertTuple(SortedTuples(SubSeq(list, 1, Len(list) - 1)), list[Len(list)])

Range(s) == {s[k] : k \in 1..Len(s)}

-----------------------------------------------------------------------------
(* File names, CSV contents and the data directory *)

Str_csv == <<Chr.dot, Chr.c, Chr.s, Chr.v>>
Str_ECB_EUR_ == <<Chr.E, Chr.C, Chr.B, Chr.us, Chr.E, Chr.U, Chr.R, Chr.us>>
Str_EUR_ == <<Chr.E, Chr.U, Chr.R, Chr.us>>
Str_monthly_stats_csv ==
    <<Chr.us, Chr.m, Chr.o, Chr.n, Chr.t, Chr.h, Chr.l, Chr.y, Chr.us,
      Chr.s, Chr.t, Chr.a, Chr.t, Chr.s>> \o Str_csv
Str_missing_data_csv ==
    <<Chr.us, Chr.m, Chr.i, Chr.s, Chr.s, Chr.i, Chr.n, Chr.g, Chr.us,
      Chr.d, Chr.a, Chr.t, Chr.a>> \o Str_csv
Str_pairs_csv == <<Chr.p, Chr.a, Chr.i, Chr.r, Chr.s>> \o Str_csv
Str_dates_csv == <<Chr.d, Chr.a, Chr.t, Chr.e, Chr.s>> \o Str_csv
\* "missing_data.csv"
Str_aggregate_csv == Tail(Str_missing_data_csv)

USD == <<Chr.U, Chr.S, Chr.D>>
SEK == <<Chr.S, Chr.E, Chr.K>>
NOK == <<Chr.N, Chr.O, Chr.K>>
DKK == <<Chr.D, Chr.K, Chr.K>>
EUR == <<Chr.E, Chr.U, Chr.R>>

\* The configured list; the base currency is EUR.
AllCurrencies == <<USD, SEK, NOK, DKK>>

\* How many codes of the configured list a run of the model downloads.
NumCurrencies == 2

CURRENCY_PAIRS == SubSeq(AllCurrencies, 1, Min(NumCurrencies, Len(AllCurrencies)))

\* What a file holds: its header line and its data rows.  A file without a
\* header line (an empty or truncated file) cannot be read as CSV.
Csv(cols, rows) == [cols |-> cols, rows |-> rows]
EmptyFile == Csv(<<>>, <<>>)

\* open(name, "w") ... write: the file is created or replaced.
WriteFile(fs, name, content) ==
    [n \in DOMAIN fs \cup {name} |-> IF n = name THEN content ELSE fs[n]]

Exists(fs, name) == name \in DOMAIN fs

\* pd.read_csv(name) succeeds: the file exists and has a header line.
Readable(fs, name) == Exists(fs, name) /\ fs[name].cols # <<>>

HasCol(content, col) == col \in Range(content.cols)

ColIndex(content, col) ==
    CHOOSE k \in 1..Len(content.cols) : content.cols[k] = col

\* df[col]: the values of one column, in row order.
Column(content, col) ==
    [k \in 1..Len(content.rows) |-> content.rows[k][ColIndex(content, col)]]

\* A RATE / OBS_VALUE cell: a number, or text that is no number.

-----------------------------------------------------------------------------
(* float64.  pandas reads a RATE column of numbers as float64 and computes  *)
(* min, max and mean in float64.  A number is [neg, m, e]: the sign, the    *)
(* significand as a sequence of Precision bits (first bit 1, most           *)
(* significant first) and the exponent of its last bit; zero has m = <<>>.  *)
(* Every operation rounds to nearest, ties to even.                         *)

\* The significand of a float64 has 53 bits.
Precision == 53

Front(s) == SubSeq(s, 1, Len(s) - 1)

Zeros(n) == [k \in 1..n |-> 0]

StripZeros(b) ==
    IF \A k \in 1..Len(b) : b[k] = 0 THEN <<>>
    ELSE SubSeq(b, CHOOSE k \in 1..Len(b) :
                       b[k] = 1 /\ \A j \in 1..(k - 1) : b[j] = 0, Len(b))

PadLeft(b, n) == Zeros(n - Len(b)) \o b

\* Long arithmetic is done on limbs of 24 bits, which the integers hold.
LimbBase == 2^24

\* The number a bit sequence of at most 24 bits stands for.
RECURSIVE BitsNat(_)
BitsNat(b) ==
    IF b = <<>> THEN 0
    ELSE IF Len(b) = 1 THEN b[1]
    ELSE LET h == Len(b) \div 2
         IN  BitsNat(SubSeq(b, 1, h)) * 2^(Len(b) - h) + BitsNat(SubSeq(b, h + 1, Len(b)))

\* A bit sequence as limbs, most significant first, and back.
Limbs(b, n) ==
    [k \in 1..n |-> BitsNat(SubSeq(PadLeft(b, 24 * n), 24 * (k - 1) + 1, 24 * k))]

LimbBits(x) ==
    [i \in 1..(24 * Len(x)) |->
        (x[((i - 1) \div 24) + 1] \div 2^(23 - ((i - 1) % 24))) % 2]

LimbsFor(a, b) == (((IF Len(a) >= Len(b) THEN Len(a) ELSE Len(b)) + 23) \div 24)

RECURSIVE AddLimbs(_, _, _)
AddLimbs(x, y, carry) ==
    IF x = <<>> THEN <<carry>>
    ELSE LET t == x[Len(x)] + y[Len(y)] + carry
         IN  AddLimbs(Front(x), Front(y), t \div LimbBase) \o <<t % LimbBase>>

RECURSIVE SubLimbs(_, _, _)
SubLimbs(x, y, borrow) ==
    IF x = <<>> THEN <<>>
    ELSE LET t == x[Len(x)] - y[Len(y)] - borrow
         IN  SubLimbs(Front(x), Front(y), IF t < 0 THEN 1 ELSE 0)
                 \o <<IF t < 0 THEN t + LimbBase ELSE t>>

\* a + b + carry of two bit sequences, without leading zeros.
AddBits(a, b, carry) ==
    LET n == LimbsFor(a, b)
    IN  StripZeros(LimbBits(AddLimbs(Limbs(a, n), Limbs(b, n), carry)))

\* a - b - borrow of two bit sequences, a >= b, without leading zeros.
SubBits(a, b, borrow) ==
    LET n == LimbsFor(a, b)
    IN  StripZeros(LimbBits(SubLimbs(Limbs(a, n), Limbs(b, n), borrow)))

\* a < b of two bit sequences of one length.
BitsLess(a, b) ==
    \E k \in 1..Len(a) : a[k] < b[k] /\ \A j \in 1..(k - 1) : a[j] = b[j]

\* The bits of a natural number.
RECURSIVE NatBits(_)
NatBits(n) == IF n = 0 THEN <<>> ELSE NatBits(n \div 2) \o <<n % 2>>

\* The bits of a sequence of hexadecimal digits.
RECURSIVE HexBits(_)
HexBits(h) ==
    IF h = <<>> THEN <<>>
    ELSE PadLeft(NatBits(h[1]), 4) \o HexBits(Tail(h))

FZero == [neg |-> FALSE, m |-> <<>>, e |-> 0]

\* The float64 nearest to (-1)^neg * bits * 2^e (plus a nonzero rest below
\* the last bit when sticky), ties to even.
RoundSticky(neg, bits, e, sticky) ==
    LET b == StripZeros(bits)
        L == Len(b)
    IN  IF b = <<>> THEN FZero
        ELSE IF L <= Precision
        THEN [neg |-> neg, m |-> b \o Zeros(Precision - L), e |-> e - (Precision - L)]
        ELSE LET head == SubSeq(b, 1, Precision)
                 guard == b[Precision + 1]
                 rest == sticky \/ \E k \in (Precision + 2)..L : b[k] = 1
                 up == guard = 1 /\ (rest \/ head[Precision] = 1)
                 inc == AddBits(head, <<>>, 1)
             IN  IF ~up THEN [neg |-> neg, m |-> head, e |-> e + (L - Precision)]
                 ELSE IF Len(inc) > Precision
                 THEN [neg |-> neg, m |-> SubSeq(inc, 1, Precision),
                       e |-> e + (L - Precision) + 1]
                 ELSE [neg |-> neg, m |-> inc, e |-> e + (L - Precision)]

Round(neg, bits, e) == RoundSticky(neg, bits, e, FALSE)

\* The float64 of a small natural number.
Float(n) == Round(FALSE, NatBits(n), 0)

FNeg(a) == IF a.m = <<>> THEN a ELSE [a EXCEPT !.neg = ~a.neg]

\* a + b in float64.
FAdd(a, b) ==
    IF a.m = <<>> THEN b
    ELSE IF b.m = <<>> THEN a
    ELSE LET emin == Min(a.e, b.e)
             A0 == a.m \o Zeros(a.e - emin)
             B0 == b.m \o Zeros(b.e - emin)
             L == IF Len(A0) >= Len(B0) THEN Len(A0) ELSE Len(B0)
             A == PadLeft(A0, L)
             B == PadLeft(B0, L)
         IN  IF a.neg = b.neg THEN Round(a.neg, AddBits(A, B, 0), emin)
             ELSE IF A = B THEN FZero
             ELSE IF BitsLess(A, B) THEN Round(b.neg, SubBits(B, A, 0), emin)
             ELSE Round(a.neg, SubBits(A, B, 0), emin)

FSub(a, b) == FAdd(a, FNeg(b))

\* a < b and a <= b; the sign of a difference is never lost to rounding.
FLess(a, b) == FSub(a, b).neg
FLeq(a, b) == ~FLess(b, a)

\* Long division of limbs by n, 0 < n < 64, with rem < n carried in: the
\* quotient limbs and the remainder.
RECURSIVE DivLimbs(_, _, _)
DivLimbs(x, n, rem) ==
    IF x = <<>> THEN [q |-> <<>>, rem |-> rem]
    ELSE LET t == rem * LimbBase + x[1]
             d == DivLimbs(Tail(x), n, t % n)
         IN  [q |-> <<t \div n>> \o d.q, rem |-> d.rem]

\* The quotient bits (without leading zeros) and the remainder of bits / n.
DivBits(bits, n, rem) ==
    LET d == DivLimbs(Limbs(bits, LimbsFor(bits, bits)), n, rem)
    IN  [q |-> StripZeros(LimbBits(d.q)), rem |-> d.rem]

\* a / n in float64, n a count of rows.
FDivNat(a, n) ==
    IF a.m = <<>> THEN a
    ELSE LET extra == Len(NatBits(n)) + 2
             d == DivBits(a.m \o Zeros(extra), n, 0)
         IN  RoundSticky(a.neg, d.q, a.e - extra, d.rem # 0)

\* 0.1 as float64: 0x1999999999999A * 2^-56.
Tenth == [neg |-> FALSE,
          m |-> StripZeros(HexBits(<<1, 9, 9, 9, 9, 9, 9, 9, 9, 9, 9, 9, 9, 10>>)),
          e |-> -56]

\* A cell of a value column as pandas reads it: a float64, or text.
Num(v) == [numeric |-> TRUE, value |-> v]
Text == [numeric |-> FALSE, value |-> FZero]

-----------------------------------------------------------------------------
(* Dates and months *)

IsLeap(y) == (y % 4 = 0 /\ y % 100 # 0) \/ y % 400 = 0

DaysInMonth(y, m) ==
    IF m = 2 THEN (IF IsLeap(y) THEN 29 ELSE 28)
    ELSE IF m \in {4, 6, 9, 11} THEN 30 ELSE 31

Timestamp(y, m, d) == [year |-> y, month |-> m, day |-> d]

\* pd.to_datetime(s) of a "YYYY-MM-DD" string; any other string of the
\* model's universe makes it raise.
IsDate(s) ==
    /\ Len(s) = 10
    /\ s[5] = Chr.dash /\ s[8] = Chr.dash
    /\ \A k \in {1, 2, 3, 4, 6, 7, 9, 10} : IsDigit(s[k])
    /\ LET y == ParseInt(SubSeq(s, 1, 4))
           m == ParseInt(SubSeq(s, 6, 7))
           d == ParseInt(SubSeq(s, 9, 10))
       IN  m \in 1..12 /\ d \in 1..DaysInMonth(y, m)

ToDatetime(s) ==
    Timestamp(ParseInt(SubSeq(s, 1, 4)), ParseInt(SubSeq(s, 6, 7)),
              ParseInt(SubSeq(s, 9, 10)))

\* Timestamp.__le__
TsLeq(a, b) ==
    \/ a.year < b.year
    \/ a.year = b.year /\ a.month < b.month
    \/ a.year = b.year /\ a.month = b.month /\ a.day <= b.day

\* min(date_objects), max(date_objects)
MinTs(S) == CHOOSE x \in S : \A y \in S : TsLeq(x, y)
MaxTs(S) == CHOOSE x \in S : \A y \in S : TsLeq(y, x)

\* current_date.strftime("%Y-%m")
Strftime(ts) == Pad4(ts.year) \o <<Chr.dash>> \o Pad2(ts.month)

\* MonthStr with the month not padded to two digits.
MonthStr_Unpadded(y, m) == Digits(y) \o <<Chr.dash>> \o Digits(m)

\* f"{int(row['year'])}-{int(row['month']):02d}"
MonthStr(y, m) == Digits(y) \o <<Chr.dash>> \o Pad2(m)

\* "YYYY-MM-DD", as the ECB API writes TIME_PERIOD.
DateStr(y, m, d) == Pad4(y) \o <<Chr.dash>> \o Pad2(m) \o <<Chr.dash>> \o Pad2(d)

-----------------------------------------------------------------------------
(* The tasks.  A task that writes a file is an operator from the data      *)
(* directory (and its arguments) to [files, ret]: the data directory it    *)
(* leaves and the value it returns.                                        *)

RawCols == <<"KEY", "CURRENCY", "CURRENCY_DENOM", "TIME_PERIOD", "OBS_VALUE">>
RequiredCols == <<"CURRENCY", "CURRENCY_DENOM", "TIME_PERIOD", "OBS_VALUE">>
CleanedCols == <<"CURRENCY", "CURRENCY_DENOM", "DATE", "RATE">>
StatsCols == <<"month_str", "low", "high", "average">>
MissingCols == <<"currency_pair", "month">>

\* The pair of a currency code, "EUR_<CODE>".
PairOf(currency) == Str_EUR_ \o currency

\* output_file of download_currency_data
RawName(currency) == Str_ECB_EUR_ \o currency \o Str_csv

\* CacheHit with the cache check left out: every call fetches.
CacheHit_Never(fs, fr, currency) == FALSE

\* The cached file is used: it exists and is less than 24 hours old.
CacheHit(fs, fr, currency) ==
    Exists(fs, RawName(currency)) /\ RawName(currency) \in fr

\* The body of clean_up_currency_data.
clean_up_currency_data(fs, file_path) ==
    LET file_name == file_path
        currency == Replace(Replace(file_name, Str_ECB_EUR_, <<>>), Str_csv, <<>>)
        output_file == Str_EUR_ \o currency \o Str_csv
    IN  IF ~Readable(fs, file_path)
        THEN [files |-> fs, ret |-> None]
        ELSE LET df == fs[file_path]
             IN  IF \A k \in 1..Len(RequiredCols) : HasCol(df, RequiredCols[k])
                 THEN LET cleaned_df ==
                            Csv(CleanedCols,
                                [r \in 1..Len(df.rows) |->
                                   [k \in 1..Len(RequiredCols) |->
                                      df.rows[r][ColIndex(df, RequiredCols[k])]]])
                      IN  [files |-> WriteFile(fs, output_file, cleaned_df),
                           ret |-> output_file]
                 ELSE [files |-> fs, ret |-> None]

collect_currency_pairs(file_path) ==
    LET file_name == file_path
        currency_pair == Replace(file_name, Str_csv, <<>>)
    IN  {currency_pair}

write_currency_pairs_to_csv(fs, pairs) ==
    LET output_file == Str_pairs_csv
        sorted == SortedStrings(pairs)
    IN  [files |-> WriteFile(fs, output_file,
                     Csv(<<"currency_pair">>,
                         [k \in 1..Len(sorted) |-> <<sorted[k]>>])),
         ret |-> output_file]

collect_dates(fs, file_path) ==
    IF Readable(fs, file_path) /\ HasCol(fs[file_path], "DATE")
    THEN Range(Column(fs[file_path], "DATE"))
    ELSE {}

write_dates_to_csv(fs, dates) ==
    LET output_file == Str_dates_csv
        sorted == SortedStrings(dates)
    IN  [files |-> WriteFile(fs, output_file,
                     Csv(<<"date">>, [k \in 1..Len(sorted) |-> <<sorted[k]>>])),
         ret |-> output_file]

\* The (year, month) groups of a frame, as groupby orders them.
RECURSIVE SortedMonths(_)
SortedMonths(S) ==
    IF S = {} THEN <<>>
    ELSE LET least == CHOOSE x \in S : \A y \in S :
                          x[1] < y[1] \/ (x[1] = y[1] /\ x[2] <= y[2])
         IN  <<least>> \o SortedMonths(S \ {least})

RECURSIVE SumSeq(_)
SumSeq(s) == IF s = <<>> THEN 0 ELSE s[1] + SumSeq(Tail(s))

MinOf(S) == CHOOSE x \in S : \A y \in S : x <= y
MaxOf(S) == CHOOSE x \in S : \A y \in S : y <= x

\* 'min' and 'max' of a group of float64 rates.
FMin(S) == CHOOSE x \in S : \A y \in S : FLeq(x, y)
FMax(S) == CHOOSE x \in S : \A y \in S : FLeq(y, x)

\* The sum of a group as pandas accumulates it, in row order with a
\* compensation term (Kahan summation), every step in float64.
RECURSIVE KahanSum(_, _, _)
KahanSum(rates, sumx, compensation) ==
    IF rates = <<>> THEN sumx
    ELSE LET y == FSub(rates[1], compensation)
             t == FAdd(sumx, y)
         IN  KahanSum(Tail(rates), t, FSub(FSub(t, sumx), y))

\* 'mean' of a group: the accumulated sum divided by the number of rows.
Mean(rates) == FDivNat(KahanSum(rates, FZero, FZero), Len(rates))

\* pd.to_datetime, groupby(['year', 'month']).agg(['min', 'max', 'mean'])
\* and month_str all succeed: every DATE parses, every RATE is a number and
\* the frame has at least one row (on an empty frame apply(axis=1) returns
\* a frame, which cannot be assigned to the single column month_str).
StatsComputable(df) ==
    /\ HasCol(df, "DATE") /\ HasCol(df, "RATE")
    /\ Len(df.rows) > 0
    /\ \A k \in 1..Len(df.rows) :
          /\ IsDate(Column(df, "DATE")[k])
          /\ Column(df, "RATE")[k].numeric

MonthlyStatsOf(df) ==
    LET date == [k \in 1..Len(df.rows) |-> ToDatetime(Column(df, "DATE")[k])]
        rate == [k \in 1..Len(df.rows) |-> Column(df, "RATE")[k].value]
        groups == SortedMonths({<<date[k].year, date[k].month>> :
                                   k \in 1..Len(df.rows)})
        InGroup(g, k) == date[k].year = g[1] /\ date[k].month = g[2]
        RatesOf(g) == SelectSeq([k \in 1..Len(df.rows) |-> <<k, rate[k]>>],
                                LAMBDA kr : InGroup(g, kr[1]))
        Values(g) == [j \in 1..Len(RatesOf(g)) |-> RatesOf(g)[j][2]]
    IN  [j \in 1..Len(groups) |->
           <<MonthStr(groups[j][1], groups[j][2]),
             FMin(Range(Values(groups[j]))),
             FMax(Range(Values(groups[j]))),
             Mean(Values(groups[j]))>>]

\* The body of compute_monthly_stats.
compute_monthly_stats(fs, file_path) ==
    LET file_name == file_path
        currency_pair == Replace(file_name, Str_csv, <<>>)
        output_file == currency_pair \o Str_monthly_stats_csv
    IN  IF ~Readable(fs, file_path)
        THEN [files |-> fs, ret |-> None]
        ELSE LET df == fs[file_path]
             IN  IF HasCol(df, "DATE") /\ HasCol(df, "RATE")
                 THEN IF StatsComputable(df)
                      THEN [files |-> WriteFile(fs, output_file,
                                        Csv(StatsCols, MonthlyStatsOf(df))),
                            ret |-> output_file]
                      ELSE [files |-> fs, ret |-> None]
                 ELSE [files |-> fs, ret |-> None]

\* MonthsFrom with `current_date < max_date` as the loop condition.
RECURSIVE MonthsFrom_Strict(_, _)
MonthsFrom_Strict(current_date, max_date) ==
    IF TsLeq(current_date, max_date) /\ current_date # max_date
    THEN <<Strftime(current_date)>> \o
         MonthsFrom_Strict(IF current_date.month = 12
                           THEN Timestamp(current_date.year + 1, 1, 1)
                           ELSE Timestamp(current_date.year, current_date.month + 1, 1),
                           max_date)
    ELSE <<>>

\* The while loop of generate_expected_months: from current_date, one
\* "%Y-%m" per month while current_date <= max_date.
RECURSIVE MonthsFrom(_, _)
MonthsFrom(current_date, max_date) ==
    IF TsLeq(current_date, max_date)
    THEN <<Strftime(current_date)>> \o
         MonthsFrom(IF current_date.month = 12
                    THEN Timestamp(current_date.year + 1, 1, 1)
                    ELSE Timestamp(current_date.year, current_date.month + 1, 1),
                    max_date)
    ELSE <<>>

\* The body of generate_expected_months: [raised, ret].  It raises when the
\* file has no header line to skip or a date does not parse.
generate_expected_months(fs, the_dates_file) ==
    IF ~Readable(fs, the_dates_file)
    THEN [raised |-> TRUE, ret |-> <<>>]
    ELSE LET rows == fs[the_dates_file].rows
             dates == [k \in 1..Len(rows) |-> rows[k][1]]
         IN  IF dates = <<>> THEN [raised |-> FALSE, ret |-> <<>>]
             ELSE IF \E k \in 1..Len(dates) : ~IsDate(dates[k])
             THEN [raised |-> TRUE, ret |-> <<>>]
             ELSE LET date_objects == {ToDatetime(dates[k]) : k \in 1..Len(dates)}
                      min_date == MinTs(date_objects)
                      max_date == MaxTs(date_objects)
                  IN  [raised |-> FALSE,
                       ret |-> MonthsFrom(Timestamp(min_date.year, min_date.month, 1),
                                          max_date)]

\* MissingMonths with the test inverted: the months that are available.
MissingMonths_Available(expected, available_months) ==
    SelectSeq(expected, LAMBDA month : month \in available_months)

\* [month for month in expected_months if month not in available_months]
MissingMonths(expected, available_months) ==
    SelectSeq(expected, LAMBDA month : month \notin available_months)

StatsName(currency_pair) == currency_pair \o Str_monthly_stats_csv
MissingName(currency_pair) == currency_pair \o Str_missing_data_csv

\* The rows written for a pair: `writer.writerow([currency_pair, month])`.
MissingRows(currency_pair, months) ==
    [k \in 1..Len(months) |-> <<currency_pair, months[k]>>]

\* identify_missing_data_for_pair treating a pair without a monthly stats
\* file as a failure: nothing written, None returned.
identify_missing_data_for_pair_AbsentFails(fs, currency_pair, expected) ==
    LET monthly_stats_file == StatsName(currency_pair)
        output_file == MissingName(currency_pair)
    IN  IF Readable(fs, monthly_stats_file)
           /\ HasCol(fs[monthly_stats_file], "month_str")
        THEN [files |-> WriteFile(fs, output_file,
                          Csv(MissingCols,
                              MissingRows(currency_pair,
                                  MissingMonths(expected,
                                      Range(Column(fs[monthly_stats_file],
                                                   "month_str")))))),
              ret |-> output_file]
        ELSE [files |-> fs, ret |-> None]

\* The body of identify_missing_data_for_pair.
identify_missing_data_for_pair(fs, currency_pair, expected) ==
    LET monthly_stats_file == StatsName(currency_pair)
        output_file == MissingName(currency_pair)
    IN  IF ~Exists(fs, monthly_stats_file)
        THEN [files |-> WriteFile(fs, output_file,
                          Csv(MissingCols, MissingRows(currency_pair, expected))),
              ret |-> output_file]
        ELSE IF Readable(fs, monthly_stats_file)
                /\ HasCol(fs[monthly_stats_file], "month_str")
             THEN LET monthly_stats == fs[monthly_stats_file]
                      available_months == Range(Column(monthly_stats, "month_str"))
                      missing_months == MissingMonths(expected, available_months)
                  IN  [files |-> WriteFile(fs, output_file,
                                   Csv(MissingCols,
                                       MissingRows(currency_pair, missing_months))),
                       ret |-> output_file]
             ELSE [files |-> fs, ret |-> None]

\* The rows aggregate_missing_data collects from one file: none when the
\* file cannot be opened or has no header line, else a (currency_pair,
\* month) tuple for every row of at least two fields.
RowsRead(fs, file_path) ==
    IF ~Readable(fs, file_path) THEN <<>>
    ELSE LET kept == SelectSeq(fs[file_path].rows, LAMBDA row : Len(row) >= 2)
         IN  [k \in 1..Len(kept) |-> <<kept[k][1], kept[k][2]>>]

\* all_missing_data after the loop over missing_data_files.
RECURSIVE CollectMissing(_, _)
CollectMissing(fs, paths) ==
    IF paths = <<>> THEN <<>>
    ELSE RowsRead(fs, paths[1]) \o CollectMissing(fs, Tail(paths))

\* AggregateRows without the sort.
AggregateRows_Unsorted(all_missing_data, known_pairs) == all_missing_data

\* The rows of the aggregate report: sorted(all_missing_data).  The set of
\* known pairs is read from the pairs file and not used.
AggregateRows(all_missing_data, known_pairs) == SortedTuples(all_missing_data)

\* The body of aggregate_missing_data: [raised, files, ret].  It raises when
\* the pairs file has no header line to skip.
aggregate_missing_data(fs, paths, the_pairs_file) ==
    LET output_file == Str_aggregate_csv
    IN  IF ~Readable(fs, the_pairs_file)
        THEN [raised |-> TRUE, files |-> fs, ret |-> None]
        ELSE LET known_pairs == {fs[the_pairs_file].rows[k][1] :
                                    k \in 1..Len(fs[the_pairs_file].rows)}
                 all_missing_data == CollectMissing(fs, paths)
             IN  [raised |-> FALSE,
                  files |-> WriteFile(fs, output_file,
                              Csv(MissingCols,
                                  AggregateRows(all_missing_data, known_pairs))),
                  ret |-> output_file]

-----------------------------------------------------------------------------
(* The inputs of a run: what the ECB API answers and what an earlier run   *)
(* left in the data directory.                                             *)

\* @task(retries=3, retry_delay_seconds=5)
Retries == 3

\* One row of an ECB response.
RawRow(currency, date, rate) == <<<<Chr.D>>, currency, EUR, date, rate>>

\* A response with every column, one row per observation <<date, rate>>.
Body(currency, obs) ==
    Csv(RawCols, [k \in 1..Len(obs) |-> RawRow(currency, obs[k][1], obs[k][2])])

\* A malformed response: the OBS_VALUE column is missing.
BodyNoValue == Csv(<<"KEY", "CURRENCY", "TIME_PERIOD">>, <<>>)

ObsNone == <<>>
ObsJanMar == <<<<DateStr(2024, 1, 15), Num(Float(3))>>,
               <<DateStr(2024, 1, 20), Num(Float(7))>>,
               <<DateStr(2024, 3, 10), Num(Float(5))>>>>
ObsFeb == <<<<DateStr(2024, 2, 3), Num(Float(2))>>>>
ObsDec == <<<<DateStr(2023, 12, 31), Num(Float(4))>>>>
ObsBadRate == <<<<DateStr(2024, 2, 3), Text>>>>
ObsBadDate == <<<<<<Chr.a, Chr.c>>, Num(Float(1))>>>>

\* What the API answers for one currency and what the data directory holds
\* for it before the run.  error: "none", "transient" (the first `failures`
\* GETs fail with a network or 5xx error) or "permanent" (every GET fails
\* with a 4xx error).  prior: "none", "freshRaw" / "staleRaw" (a raw file
\* younger / older than 24 hours), "staleStats" (a monthly stats file of an
\* earlier run), "emptyStats" (a monthly stats file cut short at zero bytes).
Scn(prior, error, failures, schema, obs) ==
    [prior |-> prior, error |-> error, failures |-> failures,
     schema |-> schema, obs |-> obs]

Scenarios ==
         {Scn("none", "none", 0, TRUE, o) :
              o \in {ObsNone, ObsJanMar, ObsFeb, ObsDec, ObsBadRate, ObsBadDate}}
    \cup {Scn("none", "none", 0, FALSE, ObsNone)}
    \cup {Scn("none", "transient", n, TRUE, ObsJanMar) : n \in {1, Retries + 1}}
    \cup {Scn(p, "permanent", 0, TRUE, ObsJanMar) : p \in {"none", "freshRaw"}}
    \cup {Scn("staleRaw", "none", 0, TRUE, ObsJanMar)}
    \cup {Scn("staleStats", "none", 0, TRUE, o) : o \in {ObsJanMar, ObsBadRate}}
    \cup {Scn("staleStats", "none", 0, FALSE, ObsFeb)}
    \cup {Scn("emptyStats", "none", 0, TRUE, ObsBadRate)}

ResponseOf(currency, sc) ==
    IF sc.schema THEN Body(currency, sc.obs) ELSE BodyNoValue

\* The monthly stats file an earlier run left: one row, for 2024-02.
StaleStats == Csv(StatsCols, <<<<MonthStr(2024, 2), Float(2), Float(2), Float(2)>>>>)

\* The files an earlier run left for one currency.
PriorFiles(currency, sc) ==
    IF sc.prior \in {"freshRaw", "staleRaw"}
    THEN {<<RawName(currency), Body(currency, ObsFeb)>>}
    ELSE IF sc.prior = "staleStats"
    THEN {<<StatsName(Str_EUR_ \o currency), StaleStats>>}
    ELSE IF sc.prior = "emptyStats"
    THEN {<<StatsName(Str_EUR_ \o currency), EmptyFile>>}
    ELSE {}

\* The data directory holding the given <<name, content>> pairs.
Directory(entries) ==
    [n \in {e[1] : e \in entries} |-> (CHOOSE e \in entries : e[1] = n)[2]]

InitLocals ==
    /\ idx = 1
    /\ attempt = 0
    /\ downloaded_files = <<>>
    /\ cleaned_files = <<>>
    /\ all_currency_pairs = {}
    /\ pairs_file = None
    /\ all_dates = {}
    /\ dates_file = None
    /\ monthly_stats_files = <<>>
    /\ expected_months = <<>>
    /\ currency_pairs = <<>>
    /\ missing_data_files = <<>>
    /\ aggregate_file = None

Init ==
    /\ \E sc \in [Range(CURRENCY_PAIRS) -> Scenarios] :
          /\ files = Directory(UNION {PriorFiles(c, sc[c]) : c \in Range(CURRENCY_PAIRS)})
          /\ fresh = {RawName(c) : c \in {x \in Range(CURRENCY_PAIRS) :
                                                sc[x].prior = "freshRaw"}}
          /\ net = [c \in Range(CURRENCY_PAIRS) |->
                      [error |-> sc[c].error, failures |-> sc[c].failures,
                       body |-> ResponseOf(c, sc[c])]]
    /\ fetchLog = [c \in Range(CURRENCY_PAIRS) |-> <<>>]
    /\ pc = "download"
    /\ InitLocals
    /\ initial = [files |-> files, fresh |-> fresh]
    /\ sequential = None
    /\ stage = <<>>

-----------------------------------------------------------------------------
(* currency_exchange_rate_pipeline, one action per task run *)

\* What requests.get / raise_for_status does on the next GET for a currency:
\* "ok", or the error it raises.
GetOutcome(currency) ==
    IF net[currency].error = "permanent" THEN "permanent"
    ELSE IF net[currency].error = "transient"
            /\ Len(fetchLog[currency]) < net[currency].failures
    THEN "transient"
    ELSE "ok"

\* Prefect runs the task again after an exception while retries are left;
\* the task sets no retry condition, so the kind of error does not matter.
RetryAllowed(error, used) == used < Retries

\* download_currency_data returns the cached file.
DownloadCached ==
    /\ pc = "download" /\ idx <= Len(CURRENCY_PAIRS)
    /\ CacheHit(files, fresh, CURRENCY_PAIRS[idx])
    /\ downloaded_files' = Append(downloaded_files, RawName(CURRENCY_PAIRS[idx]))
    /\ idx' = idx + 1
    /\ attempt' = 0
    /\ UNCHANGED par
    /\ UNCHANGED <<files, fresh, net, pc, fetchLog, cleaned_files,
                   all_currency_pairs, pairs_file, all_dates, dates_file,
                   monthly_stats_files, expected_months, currency_pairs,
                   missing_data_files, aggregate_file>>

\* download_currency_data fetches the response and saves it.
DownloadFetched ==
    /\ pc = "download" /\ idx <= Len(CURRENCY_PAIRS)
    /\ LET currency == CURRENCY_PAIRS[idx]
           output_file == RawName(currency)
       IN  /\ ~CacheHit(files, fresh, currency)
           /\ GetOutcome(currency) = "ok"
           /\ fetchLog' = [fetchLog EXCEPT ![currency] = Append(@, "ok")]
           /\ files' = WriteFile(files, output_file, net[currency].body)
           /\ fresh' = fresh \cup {output_file}
           /\ downloaded_files' = Append(downloaded_files, output_file)
    /\ idx' = idx + 1
    /\ attempt' = 0
    /\ UNCHANGED par
    /\ UNCHANGED <<net, pc, cleaned_files, all_currency_pairs, pairs_file,
                   all_dates, dates_file, monthly_stats_files, expected_months,
                   currency_pairs, missing_data_files, aggregate_file>>

\* The GET raises and Prefect schedules a retry of the task.
DownloadRetried ==
    /\ pc = "download" /\ idx <= Len(CURRENCY_PAIRS)
    /\ LET currency == CURRENCY_PAIRS[idx]
       IN  /\ ~CacheHit(files, fresh, currency)
           /\ GetOutcome(currency) # "ok"
           /\ RetryAllowed(GetOutcome(currency), attempt)
           /\ fetchLog' = [fetchLog EXCEPT ![currency] = Append(@, GetOutcome(currency))]
    /\ attempt' = attempt + 1
    /\ UNCHANGED par
    /\ UNCHANGED <<files, fresh, net, pc, idx, downloaded_files, cleaned_files,
                   all_currency_pairs, pairs_file, all_dates, dates_file,
                   monthly_stats_files, expected_months, currency_pairs,
                   missing_data_files, aggregate_file>>

\* The GET raises with no retry left: the task run fails, the exception
\* leaves download_currency_data_flow and the pipeline, which catch nothing.
DownloadFailed ==
    /\ pc = "download" /\ idx <= Len(CURRENCY_PAIRS)
    /\ LET currency == CURRENCY_PAIRS[idx]
       IN  /\ ~CacheHit(files, fresh, currency)
           /\ GetOutcome(currency) # "ok"
           /\ ~RetryAllowed(GetOutcome(currency), attempt)
           /\ fetchLog' = [fetchLog EXCEPT ![currency] = Append(@, GetOutcome(currency))]
    /\ pc' = "failed"
    /\ UNCHANGED par
    /\ UNCHANGED <<files, fresh, net, idx, attempt, downloaded_files,
                   cleaned_files, all_currency_pairs, pairs_file, all_dates,
                   dates_file, monthly_stats_files, expected_months,
                   currency_pairs, missing_data_files, aggregate_file>>

\* download_currency_data_flow returns; clean_up_currency_data_flow starts.
DownloadFlowReturns ==
    /\ pc = "download" /\ idx > Len(CURRENCY_PAIRS)
    /\ pc' = "clean"
    /\ idx' = 1
    /\ UNCHANGED par
    /\ UNCHANGED <<files, fresh, net, attempt, fetchLog, downloaded_files,
                   cleaned_files, all_currency_pairs, pairs_file, all_dates,
                   dates_file, monthly_stats_files, expected_months,
                   currency_pairs, missing_data_files, aggregate_file>>

\* One iteration of clean_up_currency_data_flow.
CleanUp ==
    /\ pc = "clean" /\ idx <= Len(downloaded_files)
    /\ LET r == clean_up_currency_data(files, downloaded_files[idx])
       IN  /\ files' = r.files
           /\ fresh' = IF r.ret # None THEN fresh \cup {r.ret} ELSE fresh
           /\ cleaned_files' = IF r.ret # None THEN Append(cleaned_files, r.ret)
                               ELSE cleaned_files
    /\ idx' = idx + 1
    /\ UNCHANGED par
    /\ UNCHANGED <<net, pc, attempt, fetchLog, downloaded_files,
                   all_currency_pairs, pairs_file, all_dates, dates_file,
                   monthly_stats_files, expected_months, currency_pairs,
                   missing_data_files, aggregate_file>>

CleanUpFlowReturns ==
    /\ pc = "clean" /\ idx > Len(downloaded_files)
    /\ pc' = "collect_pairs"
    /\ idx' = 1
    /\ UNCHANGED par
    /\ UNCHANGED <<files, fresh, net, attempt, fetchLog, downloaded_files,
                   cleaned_files, all_currency_pairs, pairs_file, all_dates,
                   dates_file, monthly_stats_files, expected_months,
                   currency_pairs, missing_data_files, aggregate_file>>

\* One iteration of collect_currency_pairs_flow.
CollectPairs ==
    /\ pc = "collect_pairs" /\ idx <= Len(cleaned_files)
    /\ all_currency_pairs' =
           all_currency_pairs \cup collect_currency_pairs(cleaned_files[idx])
    /\ idx' = idx + 1
    /\ UNCHANGED par
    /\ UNCHANGED <<files, fresh, net, pc, attempt, fetchLog, downloaded_files,
                   cleaned_files, pairs_file, all_dates, dates_file,
                   monthly_stats_files, expected_months, currency_pairs,
                   missing_data_files, aggregate_file>>

\* write_currency_pairs_to_csv; collect_dates_flow starts.
WritePairs ==
    /\ pc = "collect_pairs" /\ idx > Len(cleaned_files)
    /\ LET r == write_currency_pairs_to_csv(files, all_currency_pairs)
       IN  /\ files' = r.files
           /\ fresh' = fresh \cup {r.ret}
           /\ pairs_file' = r.ret
    /\ pc' = "collect_dates"
    /\ idx' = 1
    /\ UNCHANGED par
    /\ UNCHANGED <<net, attempt, fetchLog, downloaded_files, cleaned_files,
                   all_currency_pairs, all_dates, dates_file,
                   monthly_stats_files, expected_months, currency_pairs,
                   missing_data_files, aggregate_file>>

\* One iteration of collect_dates_flow.
CollectDates ==
    /\ pc = "collect_dates" /\ idx <= Len(cleaned_files)
    /\ all_dates' = all_dates \cup collect_dates(files, cleaned_files[idx])
    /\ idx' = idx + 1
    /\ UNCHANGED par
    /\ UNCHANGED <<files, fresh, net, pc, attempt, fetchLog, downloaded_files,
                   cleaned_files, all_currency_pairs, pairs_file, dates_file,
                   monthly_stats_files, expected_months, currency_pairs,
                   missing_data_files, aggregate_file>>

\* write_dates_to_csv; compute_monthly_stats_flow starts.
WriteDates ==
    /\ pc = "collect_dates" /\ idx > Len(cleaned_files)
    /\ LET r == write_dates_to_csv(files, all_dates)
       IN  /\ files' = r.files
           /\ fresh' = fresh \cup {r.ret}
           /\ dates_file' = r.ret
    /\ pc' = "stats"
    /\ idx' = 1
    /\ UNCHANGED par
    /\ UNCHANGED <<net, attempt, fetchLog, downloaded_files, cleaned_files,
                   all_currency_pairs, pairs_file, all_dates,
                   monthly_stats_files, expected_months, currency_pairs,
                   missing_data_files, aggregate_file>>

\* One iteration of compute_monthly_stats_flow.
ComputeStats ==
    /\ pc = "stats" /\ idx <= Len(cleaned_files)
    /\ LET r == compute_monthly_stats(files, cleaned_files[idx])
       IN  /\ files' = r.files
           /\ fresh' = IF r.ret # None THEN fresh \cup {r.ret} ELSE fresh
           /\ monthly_stats_files' =
                  IF r.ret # None THEN Append(monthly_stats_files, r.ret)
                  ELSE monthly_stats_files
    /\ idx' = idx + 1
    /\ UNCHANGED par
    /\ UNCHANGED <<net, pc, attempt, fetchLog, downloaded_files, cleaned_files,
                   all_currency_pairs, pairs_file, all_dates, dates_file,
                   expected_months, currency_pairs, missing_data_files,
                   aggregate_file>>

StatsFlowReturns ==
    /\ pc = "stats" /\ idx > Len(cleaned_files)
    /\ pc' = "expected"
    /\ idx' = 1
    /\ UNCHANGED par
    /\ UNCHANGED <<files, fresh, net, attempt, fetchLog, downloaded_files,
                   cleaned_files, all_currency_pairs, pairs_file, all_dates,
                   dates_file, monthly_stats_files, expected_months,
                   currency_pairs, missing_data_files, aggregate_file>>

\* identify_missing_data_flow: generate_expected_months returns.
GenerateExpected ==
    /\ pc = "expected"
    /\ ~generate_expected_months(files, dates_file).raised
    /\ expected_months' = generate_expected_months(files, dates_file).ret
    /\ pc' = "read_pairs"
    /\ UNCHANGED par
    /\ UNCHANGED <<files, fresh, net, idx, attempt, fetchLog, downloaded_files,
                   cleaned_files, all_currency_pairs, pairs_file, all_dates,
                   dates_file, monthly_stats_files, currency_pairs,
                   missing_data_files, aggregate_file>>

\* generate_expected_months raises: the task run fails and the exception
\* leaves identify_missing_data_flow and the pipeline.
GenerateExpectedFailed ==
    /\ pc = "expected"
    /\ generate_expected_months(files, dates_file).raised
    /\ pc' = "failed"
    /\ UNCHANGED par
    /\ UNCHANGED <<files, fresh, net, idx, attempt, fetchLog, downloaded_files,
                   cleaned_files, all_currency_pairs, pairs_file, all_dates,
                   dates_file, monthly_stats_files, expected_months,
                   currency_pairs, missing_data_files, aggregate_file>>

\* identify_missing_data_flow reads the pairs file.
ReadPairs ==
    /\ pc = "read_pairs"
    /\ currency_pairs' = [k \in 1..Len(files[pairs_file].rows) |->
                            files[pairs_file].rows[k][1]]
    /\ pc' = "identify"
    /\ idx' = 1
    /\ UNCHANGED par
    /\ UNCHANGED <<files, fresh, net, attempt, fetchLog, downloaded_files,
                   cleaned_files, all_currency_pairs, pairs_file, all_dates,
                   dates_file, monthly_stats_files, expected_months,
                   missing_data_files, aggregate_file>>

\* One iteration of the loop of identify_missing_data_flow.
IdentifyMissing ==
    /\ pc = "identify" /\ idx <= Len(currency_pairs)
    /\ LET r == identify_missing_data_for_pair(files, currency_pairs[idx],
                                               expected_months)
       IN  /\ files' = r.files
           /\ fresh' = IF r.ret # None THEN fresh \cup {r.ret} ELSE fresh
           /\ missing_data_files' =
                  IF r.ret # None THEN Append(missing_data_files, r.ret)
                  ELSE missing_data_files
    /\ idx' = idx + 1
    /\ UNCHANGED par
    /\ UNCHANGED <<net, pc, attempt, fetchLog, downloaded_files, cleaned_files,
                   all_currency_pairs, pairs_file, all_dates, dates_file,
                   monthly_stats_files, expected_months, currency_pairs,
                   aggregate_file>>

IdentifyFlowReturns ==
    /\ pc = "identify" /\ idx > Len(currency_pairs)
    /\ pc' = "aggregate"
    /\ UNCHANGED par
    /\ UNCHANGED <<files, fresh, net, idx, attempt, fetchLog, downloaded_files,
                   cleaned_files, all_currency_pairs, pairs_file, all_dates,
                   dates_file, monthly_stats_files, expected_months,
                   currency_pairs, missing_data_files, aggregate_file>>

\* aggregate_missing_data_flow; the pipeline returns its result.
AggregateMissing ==
    /\ pc = "aggregate"
    /\ LET r == aggregate_missing_data(files, missing_data_files, pairs_file)
       IN  /\ ~r.raised
           /\ files' = r.files
           /\ fresh' = fresh \cup {r.ret}
           /\ aggregate_file' = r.ret
    /\ pc' = "done"
    /\ UNCHANGED par
    /\ UNCHANGED <<net, idx, attempt, fetchLog, downloaded_files, cleaned_files,
                   all_currency_pairs, pairs_file, all_dates, dates_file,
                   monthly_stats_files, expected_months, currency_pairs,
                   missing_data_files>>

Next ==
    \/ DownloadCached
    \/ DownloadFetched
    \/ DownloadRetried
    \/ DownloadFailed
    \/ DownloadFlowReturns
    \/ CleanUp
    \/ CleanUpFlowReturns
    \/ CollectPairs
    \/ WritePairs
    \/ CollectDates
    \/ WriteDates
    \/ ComputeStats
    \/ StatsFlowReturns
    \/ GenerateExpected
    \/ GenerateExpectedFailed
    \/ ReadPairs
    \/ IdentifyMissing
    \/ IdentifyFlowReturns
    \/ AggregateMissing

Spec == Init /\ [][Next]_vars

-----------------------------------------------------------------------------
(* The same tasks run as concurrent per-currency units.  A behaviour of    *)
(* SpecPar is the sequential run, then a second run from the same data     *)
(* directory and API answers in which the units of different currencies    *)
(* (download, clean up, monthly stats, gap detection) are taken in any     *)
(* order, each unit keeping its own stage order, and the collecting and    *)
(* aggregating stages waiting for every unit before them.                  *)

\* The sequential run has ended; the concurrent run starts.
StartConcurrent ==
    /\ pc \in {"done", "failed"}
    /\ sequential = None
    /\ sequential' = [pc |-> pc, files |-> files]
    /\ files' = initial.files
    /\ fresh' = initial.fresh
    /\ fetchLog' = [c \in Range(CURRENCY_PAIRS) |-> <<>>]
    /\ stage' = [c \in Range(CURRENCY_PAIRS) |-> "download"]
    /\ pc' = "concurrent"
    /\ idx' = 1
    /\ attempt' = 0
    /\ downloaded_files' = <<>>
    /\ cleaned_files' = <<>>
    /\ all_currency_pairs' = {}
    /\ pairs_file' = None
    /\ all_dates' = {}
    /\ dates_file' = None
    /\ monthly_stats_files' = <<>>
    /\ expected_months' = <<>>
    /\ currency_pairs' = <<>>
    /\ missing_data_files' = <<>>
    /\ aggregate_file' = None
    /\ UNCHANGED <<net, initial>>

Concurrent == pc \in {"concurrent", "concurrent_gap"}

ParDownloadCached ==
    /\ pc = "concurrent"
    /\ \E currency \in Range(CURRENCY_PAIRS) :
          /\ stage[currency] = "download"
          /\ CacheHit(files, fresh, currency)
          /\ downloaded_files' = Append(downloaded_files, RawName(currency))
          /\ stage' = [stage EXCEPT ![currency] = "clean"]
    /\ UNCHANGED <<files, fresh, net, pc, idx, attempt, fetchLog, cleaned_files,
                   all_currency_pairs, pairs_file, all_dates, dates_file,
                   monthly_stats_files, expected_months, currency_pairs,
                   missing_data_files, aggregate_file, initial, sequential>>

ParDownloadFetched ==
    /\ pc = "concurrent"
    /\ \E currency \in Range(CURRENCY_PAIRS) :
          /\ stage[currency] = "download"
          /\ ~CacheHit(files, fresh, currency)
          /\ GetOutcome(currency) = "ok"
          /\ fetchLog' = [fetchLog EXCEPT ![currency] = Append(@, "ok")]
          /\ files' = WriteFile(files, RawName(currency), net[currency].body)
          /\ fresh' = fresh \cup {RawName(currency)}
          /\ downloaded_files' = Append(downloaded_files, RawName(currency))
          /\ stage' = [stage EXCEPT ![currency] = "clean"]
    /\ UNCHANGED <<net, pc, idx, attempt, cleaned_files, all_currency_pairs,
                   pairs_file, all_dates, dates_file, monthly_stats_files,
                   expected_months, currency_pairs, missing_data_files,
                   aggregate_file, initial, sequential>>

\* The retries a unit has used are the failed GETs of its currency.
ParDownloadRetried ==
    /\ pc = "concurrent"
    /\ \E currency \in Range(CURRENCY_PAIRS) :
          /\ stage[currency] = "download"
          /\ ~CacheHit(files, fresh, currency)
          /\ GetOutcome(currency) # "ok"
          /\ RetryAllowed(GetOutcome(currency), Len(fetchLog[currency]))
          /\ fetchLog' = [fetchLog EXCEPT ![currency] = Append(@, GetOutcome(currency))]
    /\ UNCHANGED <<files, fresh, net, pc, idx, attempt, downloaded_files,
                   cleaned_files, all_currency_pairs, pairs_file, all_dates,
                   dates_file, monthly_stats_files, expected_months,
                   currency_pairs, missing_data_files, aggregate_file,
                   initial, sequential, stage>>

\* The exception of a failed download ends the run, as in the sequential run.
ParDownloadFailed ==
    /\ pc = "concurrent"
    /\ \E currency \in Range(CURRENCY_PAIRS) :
          /\ stage[currency] = "download"
          /\ ~CacheHit(files, fresh, currency)
          /\ GetOutcome(currency) # "ok"
          /\ ~RetryAllowed(GetOutcome(currency), Len(fetchLog[currency]))
          /\ fetchLog' = [fetchLog EXCEPT ![currency] = Append(@, GetOutcome(currency))]
    /\ pc' = "concurrent_failed"
    /\ UNCHANGED <<files, fresh, net, idx, attempt, downloaded_files,
                   cleaned_files, all_currency_pairs, pairs_file, all_dates,
                   dates_file, monthly_stats_files, expected_months,
                   currency_pairs, missing_data_files, aggregate_file,
                   initial, sequential, stage>>

ParCleanUp ==
    /\ pc = "concurrent"
    /\ \E currency \in Range(CURRENCY_PAIRS) :
          /\ stage[currency] = "clean"
          /\ LET r == clean_up_currency_data(files, RawName(currency))
             IN  /\ files' = r.files
                 /\ fresh' = IF r.ret # None THEN fresh \cup {r.ret} ELSE fresh
                 /\ cleaned_files' = IF r.ret # None
                                     THEN Append(cleaned_files, r.ret)
                                     ELSE cleaned_files
                 /\ stage' = [stage EXCEPT ![currency] =
                                 IF r.ret # None THEN "stats" ELSE "excluded"]
    /\ UNCHANGED <<net, pc, idx, attempt, fetchLog, downloaded_files,
                   all_currency_pairs, pairs_file, all_dates, dates_file,
                   monthly_stats_files, expected_months, currency_pairs,
                   missing_data_files, aggregate_file, initial, sequential>>

\* Every unit is past clean-up: the pairs and the dates are collected from
\* the cleaned files and written.
ParCollect ==
    /\ pc = "concurrent"
    /\ \A c \in Range(CURRENCY_PAIRS) : stage[c] \notin {"download", "clean"}
    /\ pairs_file = None
    /\ LET pairs == UNION {collect_currency_pairs(cleaned_files[k]) :
                              k \in 1..Len(cleaned_files)}
           dates == UNION {collect_dates(files, cleaned_files[k]) :
                              k \in 1..Len(cleaned_files)}
           r1 == write_currency_pairs_to_csv(files, pairs)
           r2 == write_dates_to_csv(r1.files, dates)
       IN  /\ all_currency_pairs' = pairs
           /\ all_dates' = dates
           /\ files' = r2.files
           /\ fresh' = fresh \cup {r1.ret, r2.ret}
           /\ pairs_file' = r1.ret
           /\ dates_file' = r2.ret
    /\ UNCHANGED <<net, pc, idx, attempt, fetchLog, downloaded_files,
                   cleaned_files, monthly_stats_files, expected_months,
                   currency_pairs, missing_data_files, aggregate_file,
                   initial, sequential, stage>>

ParComputeStats ==
    /\ Concurrent
    /\ \E currency \in Range(CURRENCY_PAIRS) :
          /\ stage[currency] = "stats"
          /\ LET r == compute_monthly_stats(files, PairOf(currency) \o Str_csv)
             IN  /\ files' = r.files
                 /\ fresh' = IF r.ret # None THEN fresh \cup {r.ret} ELSE fresh
                 /\ monthly_stats_files' =
                        IF r.ret # None THEN Append(monthly_stats_files, r.ret)
                        ELSE monthly_stats_files
          /\ stage' = [stage EXCEPT ![currency] = "gap"]
    /\ UNCHANGED <<net, pc, idx, attempt, fetchLog, downloaded_files,
                   cleaned_files, all_currency_pairs, pairs_file, all_dates,
                   dates_file, expected_months, currency_pairs,
                   missing_data_files, aggregate_file, initial, sequential>>

\* The dates are written: the expected months are generated and the pairs read.
ParGenerateExpected ==
    /\ pc = "concurrent"
    /\ dates_file # None
    /\ ~generate_expected_months(files, dates_file).raised
    /\ expected_months' = generate_expected_months(files, dates_file).ret
    /\ currency_pairs' = [k \in 1..Len(files[pairs_file].rows) |->
                            files[pairs_file].rows[k][1]]
    /\ pc' = "concurrent_gap"
    /\ UNCHANGED <<files, fresh, net, idx, attempt, fetchLog, downloaded_files,
                   cleaned_files, all_currency_pairs, pairs_file, all_dates,
                   dates_file, monthly_stats_files, missing_data_files,
                   aggregate_file, initial, sequential, stage>>

ParGenerateExpectedFailed ==
    /\ pc = "concurrent"
    /\ dates_file # None
    /\ generate_expected_months(files, dates_file).raised
    /\ pc' = "concurrent_failed"
    /\ UNCHANGED <<files, fresh, net, idx, attempt, fetchLog, downloaded_files,
                   cleaned_files, all_currency_pairs, pairs_file, all_dates,
                   dates_file, monthly_stats_files, expected_months,
                   currency_pairs, missing_data_files, aggregate_file,
                   initial, sequential, stage>>

\* Gap detection of one pair, after the pair's own monthly stats stage.
ParIdentifyMissing ==
    /\ pc = "concurrent_gap"
    /\ \E currency \in Range(CURRENCY_PAIRS) :
          /\ stage[currency] = "gap"
          /\ PairOf(currency) \in Range(currency_pairs)
          /\ LET r == identify_missing_data_for_pair(files, PairOf(currency),
                                                     expected_months)
             IN  /\ files' = r.files
                 /\ fresh' = IF r.ret # None THEN fresh \cup {r.ret} ELSE fresh
                 /\ missing_data_files' =
                        IF r.ret # None THEN Append(missing_data_files, r.ret)
                        ELSE missing_data_files
          /\ stage' = [stage EXCEPT ![currency] = "finished"]
    /\ UNCHANGED <<net, pc, idx, attempt, fetchLog, downloaded_files,
                   cleaned_files, all_currency_pairs, pairs_file, all_dates,
                   dates_file, monthly_stats_files, expected_months,
                   currency_pairs, aggregate_file, initial, sequential>>

\* Every unit has finished or is excluded: the report is aggregated.
ParAggregate ==
    /\ pc = "concurrent_gap"
    /\ \A c \in Range(CURRENCY_PAIRS) : stage[c] \in {"finished", "excluded"}
    /\ LET r == aggregate_missing_data(files, missing_data_files, pairs_file)
       IN  /\ ~r.raised
           /\ files' = r.files
           /\ fresh' = fresh \cup {r.ret}
           /\ aggregate_file' = r.ret
    /\ pc' = "concurrent_done"
    /\ UNCHANGED <<net, idx, attempt, fetchLog, downloaded_files, cleaned_files,
                   all_currency_pairs, pairs_file, all_dates, dates_file,
                   monthly_stats_files, expected_months, currency_pairs,
                   missing_data_files, initial, sequential, stage>>

NextPar ==
    \/ Next
    \/ StartConcurrent
    \/ ParDownloadCached
    \/ ParDownloadFetched
    \/ ParDownloadRetried
    \/ ParDownloadFailed
    \/ ParCleanUp
    \/ ParCollect
    \/ ParComputeStats
    \/ ParGenerateExpected
    \/ ParGenerateExpectedFailed
    \/ ParIdentifyMissing
    \/ ParAggregate

SpecPar == Init /\ [][NextPar]_vars

-----------------------------------------------------------------------------
(* What the claims speak of *)

\* A month as a number of months, and back to "YYYY-MM".
MonthOrdinal(ts) == ts.year * 12 + (ts.month - 1)
OrdinalMonth(n) == MonthStr(n \div 12, (n % 12) + 1)

\* The pairs of the pairs report.
PairsReport ==
    IF Readable(files, Str_pairs_csv)
    THEN {files[Str_pairs_csv].rows[k][1] : k \in 1..Len(files[Str_pairs_csv].rows)}
    ELSE {}

\* The dates observed in this run: the DATE cells of the run's cleaned files.
ObservedDates ==
    UNION {Range(Column(files[cleaned_files[k]], "DATE")) : k \in 1..Len(cleaned_files)}

\* The months from the month of the earliest observed date to the month of
\* the latest, as a set.
GlobalMonths ==
    IF ObservedDates = {} THEN {}
    ELSE LET ords == {MonthOrdinal(ToDatetime(d)) : d \in ObservedDates}
         IN  {OrdinalMonth(n) : n \in MinOf(ords)..MaxOf(ords)}

\* compute_monthly_stats returned None for the pair in this run.
StatsFailed(currency_pair) ==
    /\ currency_pair \o Str_csv \in Range(cleaned_files)
    /\ StatsName(currency_pair) \notin Range(monthly_stats_files)

\* The months of the MonthlyStat rows this run computed for a pair.
StatMonths(currency_pair) ==
    IF StatsName(currency_pair) \in Range(monthly_stats_files)
    THEN Range(Column(files[StatsName(currency_pair)], "month_str"))
    ELSE {}

AggregateReport == files[Str_aggregate_csv].rows

\* C5: after a complete run the aggregate report holds the row (p, m) exactly
\* when p is a pair of the pairs report, m a month of the global expected
\* range, and the run has no monthly stat of p for m.
C5_ReportIsGlobalRangeMinusStats ==
    pc = "done" =>
        Range(AggregateReport) =
            {pm \in PairsReport \X GlobalMonths : pm[2] \notin StatMonths(pm[1])}

\* C6: no failure of one pair aborts the run; the pipeline always goes on to
\* write its aggregate report.
C6_RunNeverAborts == pc # "failed"

\* C7: a GET that fails with a permanent error is the last GET made for that
\* currency: the download is not tried again.
C7_PermanentErrorNotRetried ==
    \A c \in Range(CURRENCY_PAIRS) :
        \A k \in 1..Len(fetchLog[c]) :
            fetchLog[c][k] = "permanent" => k = Len(fetchLog[c])

\* C8: when compute_monthly_stats failed for a pair in this run, gap
\* detection reports every expected month as missing for that pair.
C8_FailedStatsMeansZeroCoverage ==
    \A k \in 1..Len(currency_pairs) :
        LET p == currency_pairs[k]
        IN  (/\ pc \in {"identify", "aggregate", "done"}
             /\ (pc = "identify" => k < idx)
             /\ StatsFailed(p))
            => /\ Exists(files, MissingName(p))
               /\ files[MissingName(p)].rows = MissingRows(p, expected_months)

-----------------------------------------------------------------------------
(* generate_expected_months on every dates file *)

DateUniverse ==
    {DateStr(2023, 11, 15), DateStr(2023, 12, 31), DateStr(2024, 1, 1),
     DateStr(2024, 2, 3), DateStr(2024, 2, 29), DateStr(2024, 3, 10),
     DateStr(2024, 12, 1), DateStr(2025, 1, 5)}

EmptyDirectory == Directory({})

\* No API and no run of the whole pipeline: one task is run on its inputs.
InitTaskOnly ==
    /\ fresh = {}
    /\ net = <<>>
    /\ fetchLog = <<>>
    /\ attempt = 0
    /\ downloaded_files = <<>>
    /\ cleaned_files = <<>>
    /\ all_currency_pairs = {}
    /\ all_dates = {}
    /\ monthly_stats_files = <<>>
    /\ aggregate_file = None
    /\ initial = [files |-> files, fresh |-> fresh]
    /\ sequential = None
    /\ stage = <<>>

\* The dates file holds any set of dates, as write_dates_to_csv writes it.
InitCal ==
    /\ \E dates \in SUBSET DateUniverse :
          files = write_dates_to_csv(EmptyDirectory, dates).files
    /\ dates_file = Str_dates_csv
    /\ pairs_file = None
    /\ pc = "expected"
    /\ idx = 1
    /\ expected_months = <<>>
    /\ currency_pairs = <<>>
    /\ missing_data_files = <<>>
    /\ InitTaskOnly

NextCal == GenerateExpected

SpecCal == InitCal /\ [][NextCal]_vars

\* The dates of the dates file.
DatesInFile ==
    {files[Str_dates_csv].rows[k][1] : k \in 1..Len(files[Str_dates_csv].rows)}

\* The earliest and the latest date of a set of "YYYY-MM-DD" strings.
EarliestDate(S) == CHOOSE d \in S : \A e \in S : d = e \/ StrLess(d, e)
LatestDate(S) == CHOOSE d \in S : \A e \in S : d = e \/ StrLess(e, d)

YearOf(d) == ParseInt(SubSeq(d, 1, 4))
MonthOf(d) == ParseInt(SubSeq(d, 6, 7))

\* C3: generate_expected_months returns the months from the month of the
\* earliest date to the month of the latest date, each followed by the next
\* calendar month, strictly increasing, (maxYear*12+maxMonth) -
\* (minYear*12+minMonth) + 1 of them; and no month for an empty set of dates.
C3_ExpectedMonthsAreTheInclusiveRange ==
    pc = "read_pairs" =>
        IF DatesInFile = {} THEN expected_months = <<>>
        ELSE LET lo == EarliestDate(DatesInFile)
                 hi == LatestDate(DatesInFile)
                 first == YearOf(lo) * 12 + MonthOf(lo)
                 last == YearOf(hi) * 12 + MonthOf(hi)
             IN  /\ Len(expected_months) = last - first + 1
                 /\ \A k \in 1..Len(expected_months) :
                       expected_months[k] = OrdinalMonth(first - 1 + (k - 1))
                 /\ \A k \in 1..(Len(expected_months) - 1) :
                       StrLess(expected_months[k], expected_months[k + 1])

\* A range that runs over a change of year has been generated.
C3_Witness ==
    /\ pc = "read_pairs"
    /\ Len(expected_months) >= 3
    /\ \E k \in 1..(Len(expected_months) - 1) :
          /\ expected_months[k] = MonthStr(2023, 12)
          /\ expected_months[k + 1] = MonthStr(2024, 1)

-----------------------------------------------------------------------------
(* identify_missing_data_for_pair on every expected list and stats file *)

MaxExpected == 3

MonthUniverse == {MonthStr(2023, 12), MonthStr(2024, 1), MonthStr(2024, 2)}

SeqsUpTo(S, n) == UNION {[1..k -> S] : k \in 0..n}

GapPairs == SortedStrings({PairOf(SEK), PairOf(USD)})

\* A monthly stats file with one row for each of the given months.
StatsFileOf(months) ==
    Csv(StatsCols, [k \in 1..Len(SortedStrings(months)) |->
                      <<SortedStrings(months)[k], Float(1), Float(1), Float(1)>>])

\* What the data directory holds as a pair's monthly stats: no file, a file
\* of zero bytes, or a file with rows for some months.
StatsChoices ==
    {[kind |-> k, months |-> {}] : k \in {"absent", "empty"}}
    \cup {[kind |-> "rows", months |-> m] : m \in SUBSET MonthUniverse}

StatsEntry(currency_pair, choice) ==
    IF choice.kind = "absent" THEN {}
    ELSE IF choice.kind = "empty" THEN {<<StatsName(currency_pair), EmptyFile>>}
    ELSE {<<StatsName(currency_pair), StatsFileOf(choice.months)>>}

PairsFileOf(pairs) == write_currency_pairs_to_csv(EmptyDirectory, pairs).files[Str_pairs_csv]

\* identify_missing_data_flow has read the pairs file and holds an expected
\* list; the data directory holds any monthly stats.
InitGap ==
    /\ \E choice \in [Range(GapPairs) -> StatsChoices] :
          files = Directory({<<Str_pairs_csv, PairsFileOf(Range(GapPairs))>>}
                            \cup UNION {StatsEntry(p, choice[p]) : p \in Range(GapPairs)})
    /\ expected_months \in SeqsUpTo(MonthUniverse, MaxExpected)
    /\ currency_pairs = GapPairs
    /\ pairs_file = Str_pairs_csv
    /\ dates_file = None
    /\ pc = "identify"
    /\ idx = 1
    /\ missing_data_files = <<>>
    /\ InitTaskOnly

NextGap ==
    \/ IdentifyMissing
    \/ IdentifyFlowReturns
    \/ AggregateMissing

SpecGap == InitGap /\ [][NextGap]_vars

\* identify_missing_data_for_pair has run for the k-th pair of the pairs file.
Identified(k) ==
    /\ k \in 1..Len(currency_pairs)
    /\ pc \in {"identify", "aggregate", "done"}
    /\ pc = "identify" => k < idx

Count(s, x) == Cardinality({k \in 1..Len(s) : s[k] = x})

\* The positions of the expected list whose month the set lacks.
Lacking(expected, available) ==
    {i \in 1..Len(expected) : expected[i] \notin available}

\* C1: for a pair whose monthly stats file is readable, the missing-data file
\* holds exactly the months of the expected list that are not among the
\* file's month_str values, each with the pair's identifier, in the order of
\* the expected list, and the expected list is the same for every pair.
C1_MissingIsExpectedMinusAvailable ==
    \A k \in 1..Len(currency_pairs) :
        LET p == currency_pairs[k]
        IN  (Identified(k) /\ Readable(files, StatsName(p)))
            => LET available == Range(Column(files[StatsName(p)], "month_str"))
                   lacking == Lacking(expected_months, available)
                   out == files[MissingName(p)].rows
               IN  /\ Len(out) = Cardinality(lacking)
                   /\ \A i \in lacking :
                         out[Cardinality({j \in lacking : j <= i})] =
                             <<p, expected_months[i]>>

\* A pair with a readable stats file has some expected months and lacks others.
C1_Witness ==
    \E k \in 1..Len(currency_pairs) :
        /\ Identified(k)
        /\ Readable(files, StatsName(currency_pairs[k]))
        /\ Len(files[MissingName(currency_pairs[k])].rows) \in
               1..(Len(expected_months) - 1)

\* C2: for a pair without a monthly stats file the task returns its
\* missing-data file, which holds one entry per month of the expected list,
\* in order; and the aggregate report holds those entries.
C2_AbsentStatsMeansAllMissing ==
    \A k \in 1..Len(currency_pairs) :
        LET p == currency_pairs[k]
        IN  (Identified(k) /\ ~Exists(files, StatsName(p)))
            => /\ MissingName(p) \in Range(missing_data_files)
               /\ Exists(files, MissingName(p))
               /\ Len(files[MissingName(p)].rows) = Len(expected_months)
               /\ \A i \in 1..Len(expected_months) :
                     files[MissingName(p)].rows[i] = <<p, expected_months[i]>>
               /\ pc = "done" =>
                     \A m \in Range(expected_months) :
                         Count(AggregateReport, <<p, m>>) = Count(expected_months, m)

\* A run has ended with a pair without stats file and two expected months.
C2_Witness ==
    /\ pc = "done"
    /\ Len(expected_months) >= 2
    /\ \E k \in 1..Len(currency_pairs) : ~Exists(files, StatsName(currency_pairs[k]))

-----------------------------------------------------------------------------
(* aggregate_missing_data on every list of missing-data files *)

MaxRows == 2

AggPairs == {PairOf(SEK), PairOf(USD)}

AggMonths == {MonthStr(2024, 1), MonthStr(2024, 2)}

\* The rows a pair's missing-data file may hold: an entry of the pair for a
\* month, or a row cut short after its first field.
RowsOfPair(currency_pair) ==
    {<<currency_pair, m>> : m \in AggMonths} \cup {<<currency_pair>>}

\* What the data directory holds as a pair's missing-data file: no file, a
\* file of zero bytes, or a file with up to MaxRows rows in any order.
MissingChoices(currency_pair) ==
    {[kind |-> k, rows |-> <<>>] : k \in {"absent", "empty"}}
    \cup {[kind |-> "rows", rows |-> r] :
              r \in SeqsUpTo(RowsOfPair(currency_pair), MaxRows)}

MissingEntry(currency_pair, choice) ==
    IF choice.kind = "absent" THEN {}
    ELSE IF choice.kind = "empty" THEN {<<MissingName(currency_pair), EmptyFile>>}
    ELSE {<<MissingName(currency_pair), Csv(MissingCols, choice.rows)>>}

\* The lists of distinct elements of a set.
ListsOf(S) ==
    {q \in SeqsUpTo(S, Cardinality(S)) :
        \A i \in 1..Len(q) : \A j \in 1..Len(q) : q[i] = q[j] => i = j}

\* aggregate_missing_data is given any list of the pairs' missing-data files
\* and a pairs file naming any of the pairs.
InitAgg ==
    /\ \E known \in SUBSET AggPairs :
       \E choice \in {f \in [AggPairs -> UNION {MissingChoices(p) : p \in AggPairs}] :
                          \A p \in AggPairs : f[p] \in MissingChoices(p)} :
          files = Directory({<<Str_pairs_csv, PairsFileOf(known)>>}
                            \cup UNION {MissingEntry(p, choice[p]) : p \in AggPairs})
    /\ missing_data_files \in ListsOf({MissingName(p) : p \in AggPairs})
    /\ pairs_file = Str_pairs_csv
    /\ dates_file = None
    /\ expected_months = <<>>
    /\ currency_pairs = <<>>
    /\ pc = "aggregate"
    /\ idx = 1
    /\ InitTaskOnly

NextAgg == AggregateMissing

SpecAgg == InitAgg /\ [][NextAgg]_vars

\* The entries of one file: its rows of at least two fields.
EntriesOf(file_path) ==
    IF Readable(files, file_path)
    THEN SelectSeq(files[file_path].rows, LAMBDA row : Len(row) >= 2)
    ELSE <<>>

\* How many times an entry occurs in the files of a list.
Occurrences(paths, entry) ==
    SumSeq([k \in 1..Len(paths) |-> Count(EntriesOf(paths[k]), entry)])

AllEntries(paths) == UNION {Range(EntriesOf(paths[k])) : k \in 1..Len(paths)}

\* The lists with the elements of a list in another order.
PermutationsOf(q) == {r \in ListsOf(Range(q)) : Len(r) = Len(q)}

\* C4: the aggregate report is sorted ascending by (pair, month), holds every
\* entry of the given files as many times as the files do and nothing else,
\* and the files given in any other order yield the same report.
C4_ReportIsSortedConcatenation ==
    pc = "done" =>
        /\ \A k \in 1..(Len(AggregateReport) - 1) :
              ~TupleLess(AggregateReport[k + 1], AggregateReport[k])
        /\ \A e \in AllEntries(missing_data_files) \cup Range(AggregateReport) :
              Count(AggregateReport, e) = Occurrences(missing_data_files, e)
        /\ \A q \in PermutationsOf(missing_data_files) :
              aggregate_missing_data(initial.files, q, pairs_file).files[Str_aggregate_csv].rows
                  = AggregateReport

\* Two files were aggregated whose entries, taken in the order given, are
\* not in ascending order.
C4_Witness ==
    /\ pc = "done"
    /\ Len(missing_data_files) = 2
    /\ Len(AggregateReport) >= 3
    /\ CollectMissing(files, missing_data_files) # AggregateReport

\* C9: every row of the aggregate report names a pair of the pairs file.
C9_ReportNamesKnownPairsOnly ==
    pc = "done" =>
        \A k \in 1..Len(AggregateReport) : AggregateReport[k][1] \in PairsReport

-----------------------------------------------------------------------------
(* The concurrent run against the sequential run *)

\* C10: the units of different pairs taken in any order leave exactly the
\* files the sequential run leaves.
C10_ConcurrentRunLeavesSameFiles ==
    pc \in {"concurrent_done", "concurrent_failed"} => files = sequential.files

\* The same, of the runs that complete.
CompletedRunsLeaveSameFiles ==
    pc = "concurrent_done" => (sequential.pc = "done" /\ files = sequential.files)

-----------------------------------------------------------------------------
(* download_currency_data_flow on every cache state and API answer *)

\* What matters to a download: the raw file an earlier run left (none, one
\* younger than 24 hours, an older one) and how the GETs end.
DownloadScenarios ==
         {sc \in Scenarios : sc.obs = ObsJanMar /\ sc.prior # "staleStats"}
    \cup {Scn("freshRaw", "none", 0, TRUE, ObsJanMar)}

InitDownload ==
    /\ \E sc \in [Range(CURRENCY_PAIRS) -> DownloadScenarios] :
          /\ files = Directory(UNION {PriorFiles(c, sc[c]) : c \in Range(CURRENCY_PAIRS)})
          /\ fresh = {RawName(c) : c \in {x \in Range(CURRENCY_PAIRS) :
                                                sc[x].prior = "freshRaw"}}
          /\ net = [c \in Range(CURRENCY_PAIRS) |->
                      [error |-> sc[c].error, failures |-> sc[c].failures,
                       body |-> ResponseOf(c, sc[c])]]
    /\ fetchLog = [c \in Range(CURRENCY_PAIRS) |-> <<>>]
    /\ pc = "download"
    /\ InitLocals
    /\ initial = [files |-> files, fresh |-> fresh]
    /\ sequential = None
    /\ stage = <<>>

NextDownload ==
    \/ DownloadCached
    \/ DownloadFetched
    \/ DownloadRetried
    \/ DownloadFailed
    \/ DownloadFlowReturns

SpecDownload == InitDownload /\ [][NextDownload]_vars

\* download_currency_data_flow has returned (its caller goes on to the
\* clean-up flow).
DownloadFlowReturned == pc = "clean"

\* The raw files that were younger than 24 hours when the run started.
CachedAtStart == {c \in Range(CURRENCY_PAIRS) : RawName(c) \in initial.fresh}

\* C11: when download_currency_data_flow returns, its result has one path
\* per configured currency, in configuration order, the k-th named
\* ECB_EUR_<k-th code>.csv and an existing file; and no GET was made for a
\* currency whose cached file was younger than 24 hours.
C11_DownloadResultIsOnePathPerCurrency ==
    DownloadFlowReturned =>
        /\ Len(downloaded_files) = Len(CURRENCY_PAIRS)
        /\ \A k \in 1..Len(CURRENCY_PAIRS) :
              /\ downloaded_files[k] = Str_ECB_EUR_ \o CURRENCY_PAIRS[k] \o Str_csv
              /\ Exists(files, downloaded_files[k])
        /\ \A c \in CachedAtStart :
              /\ fetchLog[c] = <<>>
              /\ files[RawName(c)] = initial.files[RawName(c)]

\* The flow returned after a cache hit for one currency and a fetch (after
\* a failed GET) for another.
C11_Witness ==
    /\ DownloadFlowReturned
    /\ CachedAtStart # {}
    /\ \E c \in Range(CURRENCY_PAIRS) \ CachedAtStart :
          /\ Len(fetchLog[c]) > 1
          /\ files[RawName(c)] = net[c].body

-----------------------------------------------------------------------------
(* compute_monthly_stats on every sequence of observations of one pair *)

MaxObs == 3

\* Two days of one month and a day of the next; a rate with no finite
\* binary expansion and one with.
StatsDates == {DateStr(2024, 1, 15), DateStr(2024, 1, 20), DateStr(2024, 2, 3)}
StatsRates == {Tenth, Float(2)}

\* The cleaned file of EUR_USD holds any sequence of observations, as
\* clean_up_currency_data writes it.
InitStats ==
    /\ \E obs \in SeqsUpTo(StatsDates \X {Num(r) : r \in StatsRates}, MaxObs) :
          files = clean_up_currency_data(
                      Directory({<<RawName(USD), Body(USD, obs)>>}), RawName(USD)).files
    /\ fresh = {}
    /\ net = <<>>
    /\ fetchLog = <<>>
    /\ pc = "stats"
    /\ idx = 1
    /\ attempt = 0
    /\ downloaded_files = <<RawName(USD)>>
    /\ cleaned_files = <<PairOf(USD) \o Str_csv>>
    /\ all_currency_pairs = {}
    /\ pairs_file = None
    /\ all_dates = {}
    /\ dates_file = None
    /\ monthly_stats_files = <<>>
    /\ expected_months = <<>>
    /\ currency_pairs = <<>>
    /\ missing_data_files = <<>>
    /\ aggregate_file = None
    /\ initial = [files |-> files, fresh |-> fresh]
    /\ sequential = None
    /\ stage = <<>>

NextStats ==
    \/ ComputeStats
    \/ StatsFlowReturns

SpecStats == InitStats /\ [][NextStats]_vars

\* compute_monthly_stats has run on the cleaned file.
StatsRan == pc = "stats" /\ idx > Len(cleaned_files)

\* The observations it was given: the rows of the cleaned file.
Observations == files[PairOf(USD) \o Str_csv].rows

\* The month "YYYY-MM" of an observation, and the months observed.
ObservationMonth(row) == SubSeq(row[3], 1, 7)
ObservedMonths == {ObservationMonth(Observations[k]) : k \in 1..Len(Observations)}

\* The rates observed in a month.
RatesIn(month) ==
    {Observations[k][4].value :
        k \in {j \in 1..Len(Observations) : ObservationMonth(Observations[j]) = month}}

\* The rows compute_monthly_stats produced.
StatsRows ==
    IF Exists(files, StatsName(PairOf(USD)))
    THEN files[StatsName(PairOf(USD))].rows
    ELSE <<>>

\* One row per observed month and no other, with low the least and high the
\* greatest rate of the month.
RowsAreTheMonthsWithLowAndHigh ==
    StatsRan =>
        /\ Len(StatsRows) = Cardinality(ObservedMonths)
        /\ {StatsRows[k][1] : k \in 1..Len(StatsRows)} = ObservedMonths
        /\ \A k \in 1..Len(StatsRows) :
              LET row == StatsRows[k]
              IN  /\ row[2] \in RatesIn(row[1])
                  /\ row[3] \in RatesIn(row[1])
                  /\ \A r \in RatesIn(row[1]) : FLeq(row[2], r) /\ FLeq(r, row[3])

\* C12: for every sequence of observations compute_monthly_stats produces
\* one row per observed month and none for another month, with low the
\* minimum and high the maximum rate of the month, and
\* low <= average <= high.
C12_MonthlyStatsOfEveryMonth ==
    /\ RowsAreTheMonthsWithLowAndHigh
    /\ StatsRan =>
          \A k \in 1..Len(StatsRows) :
              /\ FLeq(StatsRows[k][2], StatsRows[k][4])
              /\ FLeq(StatsRows[k][4], StatsRows[k][3])

-----------------------------------------------------------------------------
(* The expected range of a run against each pair's own observations *)

\* Runs whose downloads succeed, over pairs with no observation, with
\* observations in different months, with a rate or a date that is no
\* number or date, and with a stats file of an earlier run.
RangeScenarios ==
    {sc \in Scenarios : /\ sc.error = "none" /\ sc.schema
                        /\ \/ sc.prior = "none"
                           \/ sc.prior = "staleStats" /\ sc.obs = ObsBadRate}

InitRange ==
    /\ \E sc \in [Range(CURRENCY_PAIRS) -> RangeScenarios] :
          /\ files = Directory(UNION {PriorFiles(c, sc[c]) : c \in Range(CURRENCY_PAIRS)})
          /\ fresh = {}
          /\ net = [c \in Range(CURRENCY_PAIRS) |->
                      [error |-> sc[c].error, failures |-> sc[c].failures,
                       body |-> ResponseOf(c, sc[c])]]
    /\ fetchLog = [c \in Range(CURRENCY_PAIRS) |-> <<>>]
    /\ pc = "download"
    /\ InitLocals
    /\ initial = [files |-> files, fresh |-> fresh]
    /\ sequential = None
    /\ stage = <<>>

NextRange ==
    \/ DownloadFetched
    \/ DownloadFlowReturns
    \/ CleanUp
    \/ CleanUpFlowReturns
    \/ CollectPairs
    \/ WritePairs
    \/ CollectDates
    \/ WriteDates
    \/ ComputeStats
    \/ StatsFlowReturns
    \/ GenerateExpected
    \/ GenerateExpectedFailed
    \/ ReadPairs
    \/ IdentifyMissing
    \/ IdentifyFlowReturns
    \/ AggregateMissing

SpecRange == InitRange /\ [][NextRange]_vars

\* The months in which a pair has an observation in this run.
OwnMonths(currency_pair) ==
    IF currency_pair \o Str_csv \in Range(cleaned_files)
    THEN {SubSeq(d, 1, 7) : d \in Range(Column(files[currency_pair \o Str_csv], "DATE"))}
    ELSE {}

FirstMonth(S) == CHOOSE m \in S : \A o \in S : m = o \/ StrLess(m, o)
LastMonth(S) == CHOOSE m \in S : \A o \in S : m = o \/ StrLess(o, m)

\* compute_monthly_stats returned the pair's stats file in this run.
StatsComputed(currency_pair) == StatsName(currency_pair) \in Range(monthly_stats_files)

\* The months the aggregate report names as missing for a pair.
ReportedMissing(currency_pair) ==
    {AggregateReport[k][2] :
        k \in {j \in 1..Len(AggregateReport) : AggregateReport[j][1] = currency_pair}}

=============================================================================
